---- MODULE Spec2Model ----
(***************************************************************************)
(* Model of src/app.py (check_my_plate):                                   *)
(*   - match_food_to_db: the three-tier matcher of a food description      *)
(*     against the calorie catalog;                                        *)
(*   - the reconciliation loop of detect_food_items, which turns the       *)
(*     parsed vision response into result records;                        *)
(*   - analyze_image: the upload handler (save, detect, remove), run by    *)
(*     several requests at once.                                           *)
(*                                                                         *)
(* Python strings are sequences of one-character strings, so that          *)
(* lower(), split() and the `in` substring test are computed, not assumed. *)
(***************************************************************************)
EXTENDS Integers, Sequences, FiniteSets, TLC

(***************************************************************************)
(* Bounds                                                                  *)
(***************************************************************************)
MaxDescLen == 3      \* longest description handed to match_food_to_db
KeyLen == 2          \* number of characters of a catalog key
NameLen == 2         \* number of characters of a localized name
MaxCatalog == 2      \* most entries in the catalog
MaxNames == 2        \* most localized names present in the whole catalog
MaxFoodLen == 1      \* longest "food" string of a detected item
MaxItems == 2        \* most items in the parsed vision response
NumRequests == 3     \* concurrent analyze_image requests

(***************************************************************************)
(* Strings                                                                 *)
(***************************************************************************)
DescChars == {"A", "b", " "}
KeyChars == {"a", "B"}
NameChars == {"B", " "}

StrBetween(S, lo, hi) == UNION {[1..k -> S] : k \in lo..hi}

\* Python's None; no string of the model equals it.
None == <<"None">>

LowerChar(c) == IF c = "A" THEN "a" ELSE IF c = "B" THEN "b" ELSE c

\* str.lower()
lower(s) == [i \in 1..Len(s) |-> LowerChar(s[i])]

\* `sub in s` on strings
Contains(sub, s) ==
    \E i \in 1..(Len(s) - Len(sub) + 1) : SubSeq(s, i, i + Len(sub) - 1) = sub

IsSpace(c) == c = " "

RECURSIVE SplitFrom(_, _)
SplitFrom(s, cur) ==
    IF Len(s) = 0
    THEN IF Len(cur) = 0 THEN <<>> ELSE <<cur>>
    ELSE IF IsSpace(Head(s))
         THEN IF Len(cur) = 0
              THEN SplitFrom(Tail(s), <<>>)
              ELSE <<cur>> \o SplitFrom(Tail(s), <<>>)
         ELSE SplitFrom(Tail(s), Append(cur, Head(s)))

\* the words taken to be the characters (a string iterated without split)
split_chars(s) == [i \in 1..Len(s) |-> <<s[i]>>]

\* str.split() with no argument: runs of whitespace separate, no empty token
split(s) == SplitFrom(s, <<>>)

(***************************************************************************)
(* The catalog: an insertion-ordered dict, here a sequence of              *)
(* [key, item] with distinct keys; an item maps some of name_en, name_ru,  *)
(* name_uk to a string (its other attributes are never read).              *)
(***************************************************************************)
Langs == <<"en", "ru", "uk">>

name_key(lang) == IF lang = "en" THEN "name_en"
                  ELSE IF lang = "ru" THEN "name_ru" ELSE "name_uk"

NameKeys == {name_key(Langs[l]) : l \in 1..Len(Langs)}

\* the two-way substring test of tiers 1 and 2
TwoWay(food_lower, other_lower) ==
    Contains(food_lower, other_lower) \/ Contains(other_lower, food_lower)

\* the key loop without its early return: the last matching key is kept
RECURSIVE KeyLoop_last(_, _, _)
KeyLoop_last(food_lower, calorie_db, i) ==
    IF i > Len(calorie_db) THEN None
    ELSE LET later == KeyLoop_last(food_lower, calorie_db, i + 1)
         IN IF later # None THEN later
            ELSE IF TwoWay(food_lower, lower(calorie_db[i].key))
                 THEN calorie_db[i].key
                 ELSE None

\* for key in calorie_db.keys(): ... return key
RECURSIVE KeyLoop(_, _, _)
KeyLoop(food_lower, calorie_db, i) ==
    IF i > Len(calorie_db) THEN None
    ELSE IF TwoWay(food_lower, lower(calorie_db[i].key))
         THEN calorie_db[i].key
         ELSE KeyLoop(food_lower, calorie_db, i + 1)

\* the language loop giving up at the first language the item has no name in
RECURSIVE LangLoop_stop_at_missing(_, _, _)
LangLoop_stop_at_missing(food_lower, item, l) ==
    IF l > Len(Langs) THEN FALSE
    ELSE IF name_key(Langs[l]) \notin DOMAIN item THEN FALSE
    ELSE IF TwoWay(food_lower, lower(item[name_key(Langs[l])]))
         THEN TRUE
         ELSE LangLoop_stop_at_missing(food_lower, item, l + 1)

\* for lang in ['en', 'ru', 'uk']: if name_key in item: ... (tier 2)
RECURSIVE LangLoop(_, _, _)
LangLoop(food_lower, item, l) ==
    IF l > Len(Langs) THEN FALSE
    ELSE IF /\ name_key(Langs[l]) \in DOMAIN item
            /\ TwoWay(food_lower, lower(item[name_key(Langs[l])]))
         THEN TRUE
         ELSE LangLoop(food_lower, item, l + 1)

\* for key, item in calorie_db.items(): ... return key (tier 2)
RECURSIVE NameLoop(_, _, _)
NameLoop(food_lower, calorie_db, i) ==
    IF i > Len(calorie_db) THEN None
    ELSE IF LangLoop(food_lower, calorie_db[i].item, 1)
         THEN calorie_db[i].key
         ELSE NameLoop(food_lower, calorie_db, i + 1)

\* the increments one word adds to an entry's score
WordScore(word, key_lower, item) ==
    (IF Contains(word, key_lower) THEN 1 ELSE 0)
    + Cardinality({l \in 1..Len(Langs) :
          /\ name_key(Langs[l]) \in DOMAIN item
          /\ Contains(word, lower(item[name_key(Langs[l])]))})

\* for word in food_words: ... score += 1
RECURSIVE EntryScore(_, _, _)
EntryScore(food_words, key, item) ==
    IF Len(food_words) = 0 THEN 0
    ELSE WordScore(Head(food_words), lower(key), item)
         + EntryScore(Tail(food_words), key, item)

\* the comparison letting a later equal score replace the best so far
Better_or_equal(score, best_score) == score >= best_score

\* if score > best_score
Better(score, best_score) == score > best_score

\* for key, item in calorie_db.items(): ... (tier 3), then the return
RECURSIVE ScoreLoop(_, _, _, _, _)
ScoreLoop(food_words, calorie_db, i, best_match, best_score) ==
    IF i > Len(calorie_db)
    THEN IF best_score > 0 THEN best_match ELSE None
    ELSE LET score == EntryScore(food_words, calorie_db[i].key,
                                 calorie_db[i].item)
         IN IF Better(score, best_score)
            THEN ScoreLoop(food_words, calorie_db, i + 1,
                           calorie_db[i].key, score)
            ELSE ScoreLoop(food_words, calorie_db, i + 1,
                           best_match, best_score)

\* the matcher trying the localized names before the keys
match_food_to_db_names_first(food_description, calorie_db) ==
    LET food_lower == lower(food_description)
        t1 == KeyLoop(food_lower, calorie_db, 1)
        t2 == NameLoop(food_lower, calorie_db, 1)
    IN IF t2 # None THEN t2
       ELSE IF t1 # None THEN t1
       ELSE ScoreLoop(split(food_lower), calorie_db, 1, None, 0)

match_food_to_db(food_description, calorie_db) ==
    LET food_lower == lower(food_description)
        t1 == KeyLoop(food_lower, calorie_db, 1)
        t2 == NameLoop(food_lower, calorie_db, 1)
    IN IF t1 # None THEN t1
       ELSE IF t2 # None THEN t2
       ELSE ScoreLoop(split(food_lower), calorie_db, 1, None, 0)

(***************************************************************************)
(* Input domains                                                           *)
(***************************************************************************)
Descriptions == StrBetween(DescChars, 0, MaxDescLen)
Keys == StrBetween(KeyChars, KeyLen, KeyLen)
NameStrs == StrBetween(NameChars, NameLen, NameLen)

KeySeqs == {ks \in UNION {[1..n -> Keys] : n \in 0..MaxCatalog} :
               \A i, j \in 1..Len(ks) : i # j => ks[i] # ks[j]}

Slots(n) == (1..n) \X NameKeys

MkCatalog(ks, f) ==
    [i \in 1..Len(ks) |->
        [key |-> ks[i],
         item |-> [nk \in {k \in NameKeys : <<i, k>> \in DOMAIN f}
                      |-> f[<<i, nk>>]]]]

Catalogs ==
    UNION {
      UNION { {MkCatalog(ks, f) : f \in [S -> NameStrs]} :
              S \in {T \in SUBSET Slots(Len(ks)) : Cardinality(T) <= MaxNames} }
      : ks \in KeySeqs }

\* catalogs the reconciliation loop is run against: entries without names
PlainCatalogs == {MkCatalog(ks, <<>>) : ks \in KeySeqs}

(***************************************************************************)
(* JSON values of the parsed vision response.  A value is tagged: "str"    *)
(* carries its characters in v, "num" its value in n; "missing" stands for *)
(* a field the object does not have.                                       *)
(***************************************************************************)
JStr(s) == [t |-> "str", v |-> s, n |-> 0]
JNum(k) == [t |-> "num", v |-> <<>>, n |-> k]
JNull == [t |-> "null", v |-> <<>>, n |-> 0]
Missing == [t |-> "missing", v |-> <<>>, n |-> 0]

\* Python truth value of a JSON value
Truthy(x) == IF x.t = "str" THEN Len(x.v) > 0
             ELSE IF x.t = "num" THEN x.n # 0
             ELSE FALSE

\* item.get(field, default)
Get(field, default) == IF field.t = "missing" THEN default ELSE field

DefaultGrams == 100

\* confidence, in tenths: 0.8 if matched_key else 0.5
Confidence(matched_key) ==
    IF matched_key # None /\ Len(matched_key) > 0 THEN 8 ELSE 5

\* the guard on matched_key left out
KeyFound_always(matched_key) == TRUE

\* if matched_key:
KeyFound(matched_key) == matched_key # None /\ Len(matched_key) > 0

\* the record appended to result
Record(matched_key, item) ==
    [key |-> matched_key,
     confidence |-> Confidence(matched_key),
     estimated_grams |-> Get(item.grams, JNum(DefaultGrams))]

\* item.get('food', '') raises AttributeError unless item is a dict, and
\* food_description.lower() raises it unless the food is a string
Raises(item) ==
    \/ ~item.dict
    \/ /\ Truthy(Get(item.food, JStr(<<>>)))
       /\ Get(item.food, JStr(<<>>)).t # "str"

FoodStrs == StrBetween(DescChars, 0, MaxFoodLen)
FoodValues == {Missing, JNull, JNum(5)} \cup {JStr(s) : s \in FoodStrs}
GramsValues == {Missing, JNull, JNum(250)}
NotADict == [dict |-> FALSE, food |-> Missing, grams |-> Missing]
DetectedItems ==
    {NotADict} \cup [dict : {TRUE}, food : FoodValues, grams : GramsValues]
DetectedLists == UNION {[1..n -> DetectedItems] : n \in 0..MaxItems}

(***************************************************************************)
(* Uploaded files of analyze_image.  A file name is a directory part, a    *)
(* stem and an extension ("" when the name has no dot).                    *)
(***************************************************************************)
ALLOWED_EXTENSIONS == {"png", "jpg", "jpeg", "gif"}

NoFilePart == [has |-> FALSE, dir |-> "", stem |-> "", ext |-> ""]
Named(d, s, e) == [has |-> TRUE, dir |-> d, stem |-> s, ext |-> e]

Uploads == {NoFilePart, Named("", "", ""), Named("", "notes", "txt"),
            Named("", "plate", "JPG"), Named("../", "plate", "JPG"),
            Named("", "dinner", "png")}

LowerExt(e) == IF e = "JPG" THEN "jpg" ELSE e

\* '.' in filename and filename.rsplit('.', 1)[1].lower() in ALLOWED_EXTENSIONS
allowed_file(file) == file.ext # "" /\ LowerExt(file.ext) \in ALLOWED_EXTENSIONS

\* werkzeug's secure_filename keeps the base name and drops the directories
secure_filename(file) == <<file.stem, file.ext>>

Paths == {secure_filename(u) : u \in {x \in Uploads : x.has /\ allowed_file(x)}}
Requests == 1..NumRequests

(***************************************************************************)
(* State                                                                   *)
(***************************************************************************)
VARIABLES
    CALORIE_DB,        \* the module-level catalog
    food_description,  \* argument of a direct call of match_food_to_db
    mpc,               \* "idle", "ready" before that call, "returned" after
    ret,               \* what the call returned
    detected_foods,    \* json.loads(response_text)
    idx,               \* position of the for loop over detected_foods
    result,            \* the list the loop builds
    rpc,               \* "idle", "loop", "except", "done"
    detected_items,    \* what detect_food_items returned
    openai_client,     \* whether the client is configured
    upload,            \* per request: request.files['file']
    apc,               \* per request: position in analyze_image
    fs,                \* upload folder: per path the request whose bytes it holds, 0 if absent
    seen,              \* per request: whose bytes each read of its detection got, 0 if no file
    status             \* per request: HTTP status, 0 before it returns

matchVars == <<food_description, mpc, ret>>
loopVars == <<detected_foods, idx, result, rpc, detected_items>>
reqVars == <<openai_client, upload, apc, fs, seen, status>>
vars == <<CALORIE_DB, matchVars, loopVars, reqVars>>

MatchIdle == food_description = <<>> /\ mpc = "idle" /\ ret = None
LoopIdle ==
    /\ detected_foods = <<>> /\ idx = 0 /\ result = <<>>
    /\ rpc = "idle" /\ detected_items = <<>>
ReqIdle ==
    /\ openai_client = FALSE
    /\ upload = [r \in Requests |-> NoFilePart]
    /\ apc = [r \in Requests |-> "idle"]
    /\ fs = [p \in Paths |-> 0]
    /\ seen = [r \in Requests |-> <<>>]
    /\ status = [r \in Requests |-> 0]

(***************************************************************************)
(* A direct call of match_food_to_db                                       *)
(***************************************************************************)
InitMatch ==
    /\ CALORIE_DB \in Catalogs
    /\ food_description \in Descriptions
    /\ mpc = "ready"
    /\ ret = None
    /\ LoopIdle /\ ReqIdle

CallMatch ==
    /\ mpc = "ready"
    /\ ret' = match_food_to_db(food_description, CALORIE_DB)
    /\ mpc' = "returned"
    /\ UNCHANGED <<CALORIE_DB, food_description, loopVars, reqVars>>

(***************************************************************************)
(* The reconciliation loop of detect_food_items                            *)
(***************************************************************************)
InitLoop ==
    /\ CALORIE_DB \in PlainCatalogs
    /\ detected_foods \in DetectedLists
    /\ idx = 1
    /\ result = <<>>
    /\ rpc = "loop"
    /\ detected_items = <<>>
    /\ MatchIdle /\ ReqIdle

AtItem == rpc = "loop" /\ idx <= Len(detected_foods)

\* if not food_name: continue
LoopSkip ==
    /\ AtItem
    /\ ~Raises(detected_foods[idx])
    /\ ~Truthy(Get(detected_foods[idx].food, JStr(<<>>)))
    /\ idx' = idx + 1
    /\ UNCHANGED <<CALORIE_DB, matchVars, detected_foods, result, rpc,
                   detected_items, reqVars>>

\* matched_key is set: result.append({...})
LoopEmit ==
    /\ AtItem
    /\ ~Raises(detected_foods[idx])
    /\ Truthy(Get(detected_foods[idx].food, JStr(<<>>)))
    /\ LET matched_key ==
               match_food_to_db(detected_foods[idx].food.v, CALORIE_DB)
       IN /\ KeyFound(matched_key)
          /\ result' = Append(result, Record(matched_key, detected_foods[idx]))
    /\ idx' = idx + 1
    /\ UNCHANGED <<CALORIE_DB, matchVars, detected_foods, rpc,
                   detected_items, reqVars>>

\* matched_key is None: nothing is appended
LoopDrop ==
    /\ AtItem
    /\ ~Raises(detected_foods[idx])
    /\ Truthy(Get(detected_foods[idx].food, JStr(<<>>)))
    /\ ~KeyFound(match_food_to_db(detected_foods[idx].food.v, CALORIE_DB))
    /\ idx' = idx + 1
    /\ UNCHANGED <<CALORIE_DB, matchVars, detected_foods, result, rpc,
                   detected_items, reqVars>>

\* the item makes .get or .lower raise: control leaves the loop
LoopRaise ==
    /\ AtItem
    /\ Raises(detected_foods[idx])
    /\ rpc' = "except"
    /\ UNCHANGED <<CALORIE_DB, matchVars, detected_foods, idx, result,
                   detected_items, reqVars>>

\* return result
LoopReturn ==
    /\ rpc = "loop" /\ idx > Len(detected_foods)
    /\ detected_items' = result
    /\ rpc' = "done"
    /\ UNCHANGED <<CALORIE_DB, matchVars, detected_foods, idx, result, reqVars>>

\* except Exception as e: ... return []
ExceptReturn ==
    /\ rpc = "except"
    /\ detected_items' = <<>>
    /\ rpc' = "done"
    /\ UNCHANGED <<CALORIE_DB, matchVars, detected_foods, idx, result, reqVars>>

\* a run is one direct call of the matcher or one run of the loop
Init == InitMatch \/ InitLoop

Next ==
    \/ CallMatch
    \/ LoopSkip \/ LoopEmit \/ LoopDrop \/ LoopRaise
    \/ LoopReturn \/ ExceptReturn

Spec == Init /\ [][Next]_vars

(***************************************************************************)
(* analyze_image, one instance per request; the server runs requests in    *)
(* threads, so their steps interleave at every file operation.             *)
(***************************************************************************)
InitAnalyze ==
    /\ CALORIE_DB = <<>>
    /\ openai_client \in BOOLEAN
    /\ upload \in [Requests -> Uploads]
    /\ apc = [r \in Requests |-> "start"]
    /\ fs = [p \in Paths |-> 0]
    /\ seen = [r \in Requests |-> <<>>]
    /\ status = [r \in Requests |-> 0]
    /\ MatchIdle /\ LoopIdle

\* os.path.join(app.config['UPLOAD_FOLDER'], secure_filename(file.filename))
filepath(r) == secure_filename(upload[r])

Finish(r, code) ==
    /\ apc' = [apc EXCEPT ![r] = "done"]
    /\ status' = [status EXCEPT ![r] = code]

\* if 'file' not in request.files
RejectNoFile(r) ==
    /\ apc[r] = "start"
    /\ ~upload[r].has
    /\ Finish(r, 400)
    /\ UNCHANGED <<CALORIE_DB, matchVars, loopVars, openai_client, upload, fs, seen>>

\* if file.filename == ''
RejectNoName(r) ==
    /\ apc[r] = "start"
    /\ upload[r].has
    /\ upload[r].dir = "" /\ upload[r].stem = "" /\ upload[r].ext = ""
    /\ Finish(r, 400)
    /\ UNCHANGED <<CALORIE_DB, matchVars, loopVars, openai_client, upload, fs, seen>>

\* if not file or not allowed_file(file.filename)
RejectType(r) ==
    /\ apc[r] = "start"
    /\ upload[r].has
    /\ ~(upload[r].dir = "" /\ upload[r].stem = "" /\ upload[r].ext = "")
    /\ ~allowed_file(upload[r])
    /\ Finish(r, 400)
    /\ UNCHANGED <<CALORIE_DB, matchVars, loopVars, openai_client, upload, fs, seen>>

\* file.save(filepath): creates the file or replaces its content
Save(r) ==
    /\ apc[r] = "start"
    /\ upload[r].has
    /\ allowed_file(upload[r])
    /\ fs' = [fs EXCEPT ![filepath(r)] = r]
    /\ apc' = [apc EXCEPT ![r] = "detect"]
    /\ UNCHANGED <<CALORIE_DB, matchVars, loopVars, openai_client, upload, seen, status>>

\* detect_food_items: if not openai_client: return []
DetectNoClient(r) ==
    /\ apc[r] = "detect"
    /\ ~openai_client
    /\ apc' = [apc EXCEPT ![r] = "remove"]
    /\ UNCHANGED <<CALORIE_DB, matchVars, loopVars, openai_client, upload, fs, seen, status>>

\* encode_image_to_base64(image_path); None (file gone) makes detect return []
Encode(r) ==
    /\ apc[r] = "detect"
    /\ openai_client
    /\ seen' = [seen EXCEPT ![r] = Append(@, fs[filepath(r)])]
    /\ apc' = [apc EXCEPT ![r] = IF fs[filepath(r)] = 0 THEN "remove" ELSE "open"]
    /\ UNCHANGED <<CALORIE_DB, matchVars, loopVars, openai_client, upload, fs, status>>

\* Image.open(image_path); an error is caught and detect returns [].
\* The vision call and the loop that follow touch no shared state.
ImageOpen(r) ==
    /\ apc[r] = "open"
    /\ seen' = [seen EXCEPT ![r] = Append(@, fs[filepath(r)])]
    /\ apc' = [apc EXCEPT ![r] = "remove"]
    /\ UNCHANGED <<CALORIE_DB, matchVars, loopVars, openai_client, upload, fs, status>>

\* os.remove(filepath), then the 200 response; raises if the file is gone
Remove(r) ==
    /\ apc[r] = "remove"
    /\ IF fs[filepath(r)] # 0
       THEN /\ fs' = [fs EXCEPT ![filepath(r)] = 0]
            /\ Finish(r, 200)
       ELSE /\ apc' = [apc EXCEPT ![r] = "except"]
            /\ UNCHANGED <<fs, status>>
    /\ UNCHANGED <<CALORIE_DB, matchVars, loopVars, openai_client, upload, seen>>

\* except: if os.path.exists(filepath)
ExceptExists(r) ==
    /\ apc[r] = "except"
    /\ IF fs[filepath(r)] # 0
       THEN /\ apc' = [apc EXCEPT ![r] = "except_remove"]
            /\ UNCHANGED status
       ELSE Finish(r, 500)
    /\ UNCHANGED <<CALORIE_DB, matchVars, loopVars, openai_client, upload, fs, seen>>

\* except: os.remove(filepath), its own failure passed over; the 500 response
ExceptRemove(r) ==
    /\ apc[r] = "except_remove"
    /\ fs' = [fs EXCEPT ![filepath(r)] = 0]
    /\ Finish(r, 500)
    /\ UNCHANGED <<CALORIE_DB, matchVars, loopVars, openai_client, upload, seen>>

NextAnalyze ==
    \E r \in Requests :
        \/ RejectNoFile(r) \/ RejectNoName(r) \/ RejectType(r)
        \/ Save(r) \/ DetectNoClient(r) \/ Encode(r) \/ ImageOpen(r)
        \/ Remove(r) \/ ExceptExists(r) \/ ExceptRemove(r)

SpecAnalyze == InitAnalyze /\ [][NextAnalyze]_vars

(***************************************************************************)
(* Properties of match_food_to_db.  They are stated on the description     *)
(* and the catalog directly, not through the loops above.                  *)
(***************************************************************************)
Called == mpc = "returned"

Entries == 1..Len(CALORIE_DB)

\* a occurs in b as a substring, letter case ignored
OccursIn(a, b) ==
    \E off \in 0..(Len(b) - Len(a)) :
        \A k \in 1..Len(a) : LowerChar(a[k]) = LowerChar(b[off + k])

EitherWay(a, b) == OccursIn(a, b) \/ OccursIn(b, a)

NamesOf(i) == {CALORIE_DB[i].item[nk] : nk \in DOMAIN CALORIE_DB[i].item}

Tier1Hits == {i \in Entries : EitherWay(food_description, CALORIE_DB[i].key)}

Tier2Hits ==
    {i \in Entries : \E nm \in NamesOf(i) : EitherWay(food_description, nm)}

\* the words of the description: its maximal runs of non-blank characters,
\* each identified by its first and last position
Words ==
    {w \in (1..Len(food_description)) \X (1..Len(food_description)) :
        /\ w[1] <= w[2]
        /\ \A k \in w[1]..w[2] : food_description[k] # " "
        /\ (w[1] = 1 \/ food_description[w[1] - 1] = " ")
        /\ (w[2] = Len(food_description) \/ food_description[w[2] + 1] = " ")}

WordAt(w) == SubSeq(food_description, w[1], w[2])

\* one point per (word, key) and per (word, language) the word occurs in
Score(i) ==
    Cardinality({w \in Words : OccursIn(WordAt(w), CALORIE_DB[i].key)})
    + Cardinality({p \in Words \X DOMAIN CALORIE_DB[i].item :
                      OccursIn(WordAt(p[1]), CALORIE_DB[i].item[p[2]])})

TopScorers == {i \in Entries : \A j \in Entries : Score(j) <= Score(i)}

Earliest(S) == CHOOSE i \in S : \A j \in S : i <= j

\* C1: the tiers are tried in strict order: if some key passes the tier-1
\* test the returned key is one that passes it, whatever the names and the
\* word scores of the other entries; if no key passes it but some name
\* passes the tier-2 test, the returned key is of an entry with such a name.
C1_TierOrder ==
    Called =>
        /\ Tier1Hits # {} => \E i \in Tier1Hits : ret = CALORIE_DB[i].key
        /\ (Tier1Hits = {} /\ Tier2Hits # {}) =>
               \E i \in Tier2Hits : ret = CALORIE_DB[i].key

\* tier 1 answers although an earlier entry matches by name and outscores it
C1_Witness ==
    /\ Called
    /\ \E i \in Tier1Hits, j \in Tier2Hits :
          /\ j < i /\ j \notin Tier1Hits
          /\ Score(j) > Score(i)
          /\ ret = CALORIE_DB[i].key

\* C2: among several keys that pass the tier-1 test the earliest in catalog
\* order is returned, in its stored spelling.
C2_FirstKeyWins ==
    (Called /\ Tier1Hits # {}) => ret = CALORIE_DB[Earliest(Tier1Hits)].key

C2_Witness ==
    /\ Called
    /\ Cardinality(Tier1Hits) >= 2
    /\ ret = CALORIE_DB[Earliest(Tier1Hits)].key
    /\ ret # lower(ret)

\* C3: when tiers 1 and 2 find nothing, the result is the earliest entry
\* among those of maximal word score if that score is positive, else None.
C3_ScoreTieBreak ==
    (Called /\ Tier1Hits = {} /\ Tier2Hits = {}) =>
        IF \E i \in Entries : Score(i) > 0
        THEN ret = CALORIE_DB[Earliest(TopScorers)].key
        ELSE ret = None

\* two entries tie at the top score, the later one thanks to a localized
\* name, and the earlier is returned
C3_Witness ==
    /\ Called /\ Tier1Hits = {} /\ Tier2Hits = {}
    /\ \E i, j \in TopScorers :
          /\ i < j
          /\ Score(i) >= 2
          /\ \E nm \in NamesOf(j), w \in Words : OccursIn(WordAt(w), nm)
          /\ ret = CALORIE_DB[i].key

\* the description is nowhere a substring of a key or of a name
DescriptionAbsent ==
    \A i \in Entries :
        /\ ~OccursIn(food_description, CALORIE_DB[i].key)
        /\ \A nm \in NamesOf(i) : ~OccursIn(food_description, nm)

\* C4 as stated: for a non-empty catalog, a description that is a
\* substring of no key and of no name gets None.
C4_AbsentGivesNone ==
    (Called /\ Len(CALORIE_DB) > 0 /\ DescriptionAbsent) => ret = None

\* no key and no name is a substring of the description, and no word of
\* the description is a substring of a key or of a name
NothingInCommon ==
    \A i \in Entries :
        /\ ~OccursIn(CALORIE_DB[i].key, food_description)
        /\ \A nm \in NamesOf(i) : ~OccursIn(nm, food_description)
        /\ Score(i) = 0

\* C4 amended: None is returned when, besides, no key or name is a
\* substring of the description and no word of it occurs in a key or name.
C4_NothingInCommonGivesNone ==
    (Called /\ Len(CALORIE_DB) > 0 /\ DescriptionAbsent /\ NothingInCommon)
        => ret = None

C4_Witness ==
    /\ Called /\ Len(CALORIE_DB) = 2
    /\ Words # {}
    /\ \E i \in Entries : DOMAIN CALORIE_DB[i].item # {}
    /\ DescriptionAbsent /\ NothingInCommon
    /\ ret = None

\* C8: when no key passes tier 1, the key of the earliest entry with a name
\* (en, ru or uk) passing the two-way test is returned; an entry without a
\* name in some language is just not tested for it.
C8_FirstNameWins ==
    (Called /\ Tier1Hits = {} /\ Tier2Hits # {})
        => ret = CALORIE_DB[Earliest(Tier2Hits)].key

\* two entries match by name, the earlier one only through its "uk" name
C8_Witness ==
    /\ Called /\ Tier1Hits = {}
    /\ Words # {}
    /\ Cardinality(Tier2Hits) = 2
    /\ DOMAIN CALORIE_DB[Earliest(Tier2Hits)].item = {"name_uk"}
    /\ ret = CALORIE_DB[Earliest(Tier2Hits)].key

(***************************************************************************)
(* Properties of the reconciliation loop                                   *)
(***************************************************************************)
Returned == rpc = "done"

\* the item is an object with a non-empty string as its food
HasDescription(item) ==
    item.dict /\ item.food.t = "str" /\ Len(item.food.v) > 0

\* the item has a description and the catalog has a match for it
Matches(item) ==
    HasDescription(item) /\ match_food_to_db(item.food.v, CALORIE_DB) # None

\* how many of the first n input items match
MatchesUpTo(n) == Cardinality({k \in 1..n : Matches(detected_foods[k])})

\* the record the item is to yield
Expected(item) ==
    [key |-> match_food_to_db(item.food.v, CALORIE_DB),
     confidence |-> 8,
     estimated_grams |->
         IF item.grams.t = "missing" THEN JNum(100) ELSE item.grams]

\* C5: an item whose description is missing, empty or malformed is skipped
\* on its own: every other item of the list that matches the catalog is
\* still in the returned list.
C5_BadItemIsolated ==
    Returned =>
        \A k \in 1..Len(detected_foods) :
            Matches(detected_foods[k]) =>
                \E m \in 1..Len(detected_items) :
                    detected_items[m].key =
                        match_food_to_db(detected_foods[k].food.v, CALORIE_DB)

\* C6: every item with a non-empty description and a match yields exactly
\* one record: the matched key, confidence 0.8, and the item's own
\* estimated_grams, or 100 when it has none.
C6_RecordShape ==
    Returned =>
        /\ Len(detected_items) = MatchesUpTo(Len(detected_foods))
        /\ \A k \in 1..Len(detected_foods) :
              Matches(detected_foods[k]) =>
                  detected_items[MatchesUpTo(k)] = Expected(detected_foods[k])

RECURSIVE MatchedKeys(_)
MatchedKeys(items) ==
    IF Len(items) = 0 THEN <<>>
    ELSE (IF Matches(Head(items))
          THEN <<match_food_to_db(Head(items).food.v, CALORIE_DB)>>
          ELSE <<>>) \o MatchedKeys(Tail(items))

\* C7: the output is the subsequence of the input items that have a
\* non-empty description and a match, in input order, duplicates kept.
C7_OrderKept ==
    Returned =>
        [m \in 1..Len(detected_items) |-> detected_items[m].key]
            = MatchedKeys(detected_foods)

C10_RequestsIsolated ==
    /\ \A r \in Requests : \A k \in 1..Len(seen[r]) : seen[r][k] = r
    /\ \A r \in Requests : apc[r] \in {"detect", "open"} => fs[filepath(r)] = r
    /\ (\A r \in Requests : apc[r] = "done") => \A p \in Paths : fs[p] = 0

====
